---------------------------- MODULE Spec2Model ----------------------------
(***************************************************************************)
(* A model of cola/gitcmds.py: the current-branch stat cache, the tracking *)
(* branch lookup, the diff header/body splitter and the patch-set grouper. *)
(*                                                                         *)
(* Python strings are modelled as sequences of one-character strings, so   *)
(* that strip(), startswith(), split() and slicing are computed and not    *)
(* assumed.                                                                *)
(***************************************************************************)
EXTENDS Integers, Sequences, FiniteSets, TLC

VARIABLES
  head,        \* the file system object at <repo>/.git/HEAD
  clock,       \* the latest modification time handed out by the file system
  cache,       \* class _current_branch: [st_mtime, value]
  ret,         \* what the last current_branch() call returned
  obs,         \* what the last current_branch() call did (stat, reads, raise)
  prev,        \* ret and obs.stat of the call before the last one
  pc,          \* concurrent callers: position of each caller in current_branch()
  loc,         \* concurrent callers: local variables of each caller
  src,         \* which read of HEAD wrote each cache field (history variable)
  patchIn,     \* arguments of format_patchsets and the statuses git will answer
  patchOut,    \* what format_patchsets did and returned
  diffIn,      \* arguments of diff_helper and what git diff / the disk answer
  diffOut,     \* what diff_helper returned
  trackIn,     \* argument of tracked_branch and the model's parameters
  trackOut     \* what tracked_branch returned

branchVars == <<head, clock, cache, ret, obs, prev>>
concVars   == <<pc, loc, src>>
patchVars  == <<patchIn, patchOut>>
diffVars   == <<diffIn, diffOut>>
trackVars  == <<trackIn, trackOut>>
vars == <<head, clock, cache, ret, obs, prev, pc, loc, src,
          patchIn, patchOut, diffIn, diffOut, trackIn, trackOut>>

---------------------------------------------------------------------------
(* Bounds of the model. *)

\* HEAD is rewritten until the file system clock shows MaxTime.
MaxTime == 3

\* Concurrent callers of current_branch(), and the calls each of them makes.
NumCallers == 2
MaxCalls == 2

\* Length of the full revision list handed to format_patchsets.
MaxRevs == 5

\* Number of lines git diff prints.
MaxLines == 3

---------------------------------------------------------------------------
(* Python string operations on sequences of characters. *)

Whitespace == {" ", "\n", "\t", "\r"}

\* s[n:]
Drop(s, n) == IF n >= Len(s) THEN <<>> ELSE SubSeq(s, n + 1, Len(s))

\* s[:n]
Take(s, n) == IF n >= Len(s) THEN s ELSE SubSeq(s, 1, n)

\* s.startswith(p)
StartsWith(s, p) == Len(s) >= Len(p) /\ SubSeq(s, 1, Len(p)) = p

\* sub in s
Contains(s, sub) ==
  \E i \in 0..(Len(s) - Len(sub)) : SubSeq(s, i + 1, i + Len(sub)) = sub

RECURSIVE LStrip(_)
LStrip(s) == IF s # <<>> /\ Head(s) \in Whitespace THEN LStrip(Tail(s)) ELSE s

RECURSIVE RStrip(_)
RStrip(s) ==
  IF s # <<>> /\ s[Len(s)] \in Whitespace THEN RStrip(SubSeq(s, 1, Len(s) - 1)) ELSE s

\* s.strip()
Strip(s) == RStrip(LStrip(s))

\* s.replace('\\', '/')
ReplaceBackslash(s) == [i \in DOMAIN s |-> IF s[i] = "\\" THEN "/" ELSE s[i]]

\* s.split(sep) for a one-character sep: always at least one piece.
RECURSIVE SplitAcc(_, _, _)
SplitAcc(s, sep, cur) ==
  IF s = <<>> THEN <<cur>>
  ELSE IF Head(s) = sep THEN <<cur>> \o SplitAcc(Tail(s), sep, <<>>)
  ELSE SplitAcc(Tail(s), sep, Append(cur, Head(s)))

Split(s, sep) == SplitAcc(s, sep, <<>>)

\* sep.join(parts) for a one-character sep
RECURSIVE Join(_, _)
Join(parts, sep) ==
  IF parts = <<>> THEN <<>>
  ELSE IF Len(parts) = 1 THEN parts[1]
  ELSE parts[1] \o <<sep>> \o Join(Tail(parts), sep)

---------------------------------------------------------------------------
(* The file system as current_branch() sees it. *)

\* model.git_repo_path('HEAD'), already absolute
HeadPath == <<"/", ".", "g", "i", "t", "/", "H", "E", "A", "D">>

\* model.git_repo_path('refs', 'heads')
RefsHeadsPath ==
  <<"/", ".", "g", "i", "t", "/", "r", "e", "f", "s", "/", "h", "e", "a", "d", "s">>

\* ref_prefix = 'ref: refs/heads/'
RefPrefix ==
  <<"r", "e", "f", ":", " ", "r", "e", "f", "s", "/", "h", "e", "a", "d", "s", "/">>

\* Branch names used in the model: "m" and "f/x".
BranchNames == {<<"m">>, <<"f", "/", "x">>}

\* A commit id, as a detached HEAD holds it.
CommitId == <<"9", "f", "c", "e">>

\* 'ref: refs/remotes/o/m': a ref outside refs/heads/.
RemoteRefLine ==
  <<"r", "e", "f", ":", " ", "r", "e", "f", "s", "/", "r", "e", "m", "o", "t", "e", "s",
    "/", "o", "/", "m">>

\* What a plain HEAD file can hold, before the surrounding whitespace.
HeadBodies ==
  {RefPrefix \o b : b \in BranchNames} \cup {CommitId, RemoteRefLine, <<>>}

HeadContents ==
  {lead \o body \o trail :
     lead \in {<<>>, <<" ">>}, body \in HeadBodies, trail \in {<<>>, <<"\n">>}}

\* Where a symbolic link HEAD can point.
LinkTargets ==
  {RefsHeadsPath \o <<"/">> \o b : b \in BranchNames}
    \cup {<<"/", ".", "g", "i", "t", "/", "o">>}

\* The shapes HEAD can have: a plain file, a symbolic link (whose target may
\* be missing), a directory, or nothing at all.  content is what reading
\* through the path yields (a loose ref holds a commit id).
HeadShapes ==
  [kind : {"file"}, content : HeadContents, target : {<<>>}, dangling : {FALSE}]
    \cup [kind : {"link"}, content : {CommitId \o <<"\n">>}, target : LinkTargets,
          dangling : BOOLEAN]
    \cup [kind : {"dir", "missing"}, content : {<<>>}, target : {<<>>},
          dangling : {FALSE}]

HeadAt(shape, t) ==
  [kind |-> shape.kind, content |-> shape.content, target |-> shape.target,
   dangling |-> shape.dangling, mtime |-> t]

\* The outcome of a failed os.stat (OSError): st is never bound.
NoStat == -1

\* _current_branch.st_mtime = 0
InitStMtime == 0

\* _current_branch.value = None
NoneValue == <<"None">>

\* os.stat(head).st_mtime: follows symbolic links, OSError when nothing is there.
Stat(h) ==
  IF h.kind \in {"file", "dir"} \/ (h.kind = "link" /\ ~h.dangling)
  THEN h.mtime ELSE NoStat

\* os.path.islink(head)
IsLink(h) == h.kind = "link"

\* os.path.isfile(head): follows symbolic links
IsFile(h) == h.kind = "file" \/ (h.kind = "link" /\ ~h.dangling)

\* utils.slurp(head)
Slurp(h) == h.content

\* os.path.abspath(p): normalises without resolving symbolic links; the paths
\* of the model are absolute and normalised already.
AbsPath(p, h) == p

\* os.path.realpath(p): resolves symbolic links.
RealPath(p, h) == IF p = HeadPath /\ h.kind = "link" THEN h.target ELSE p

---------------------------------------------------------------------------
(* current_branch() *)

InitCache == [st_mtime |-> InitStMtime, value |-> NoneValue]

\* if _current_branch.st_mtime == st.st_mtime   (inside the try: no st, no hit)
CacheHit(c, st) == st # NoStat /\ c.st_mtime = st

\* path = os.path.abspath(head).replace('\\', '/')
LinkPath(h) == ReplaceBackslash(AbsPath(HeadPath, h))

\* Faulty variant of FileValue: no strip(), the newline of HEAD stays.
FileValue_NoStrip(content) ==
  IF StartsWith(content, RefPrefix) THEN Drop(content, Len(RefPrefix)) ELSE content

\* value = utils.slurp(head).strip(), minus ref_prefix when it starts with it
FileValue(content) ==
  LET value == Strip(content)
  IN IF StartsWith(value, RefPrefix) THEN Drop(value, Len(RefPrefix)) ELSE value

CallResult(r, c, st, inspected, slurped, raised) ==
  [ret |-> r, cache |-> c, stat |-> st, inspected |-> inspected,
   slurped |-> slurped, raised |-> raised]

\* One whole call of current_branch() on HEAD h with cache c.
current_branch(h, c) ==
  LET st == Stat(h) IN
  IF CacheHit(c, st) THEN CallResult(c.value, c, st, FALSE, FALSE, FALSE)
  ELSE IF IsLink(h) THEN
    LET refs_heads == RealPath(RefsHeadsPath, h)
        path == LinkPath(h)
    IN IF StartsWith(path, refs_heads \o <<"/">>)
       THEN LET value == Drop(path, Len(refs_heads) + 1) IN
            IF st = NoStat
            THEN \* st.st_mtime with st unbound: the value is stored, then it raises
                 CallResult(<<>>, [c EXCEPT !.value = value], st, TRUE, FALSE, TRUE)
            ELSE CallResult(value, [st_mtime |-> st, value |-> value], st,
                            TRUE, FALSE, FALSE)
       ELSE CallResult(<<>>, c, st, TRUE, FALSE, FALSE)
  ELSE IF IsFile(h) THEN
    LET value == FileValue(Slurp(h)) IN
    IF st = NoStat
    THEN CallResult(<<>>, c, st, TRUE, TRUE, TRUE)
    ELSE CallResult(value, [st_mtime |-> st, value |-> value], st, TRUE, TRUE, FALSE)
  ELSE CallResult(<<>>, c, st, TRUE, FALSE, FALSE)

NoCall == [called |-> FALSE, ret |-> NoneValue, stat |-> NoStat]

InitObs == [called |-> FALSE, head |-> <<>>, stat |-> NoStat, inspected |-> FALSE,
            slurped |-> FALSE, raised |-> FALSE]

\* Defaults of the variables a specification does not use.
IdleConc  == pc = <<>> /\ loc = <<>> /\ src = <<>>
IdlePatch == patchIn = <<>> /\ patchOut = [done |-> FALSE]
IdleDiff  == diffIn = <<>> /\ diffOut = [done |-> FALSE]
IdleTrack == trackIn = <<>> /\ trackOut = [done |-> FALSE]

\* HEAD as the program finds it: stamped with the epoch itself (a work tree
\* unpacked from an archive with zeroed times) or with a later time.
InitTimes == {0, 1}

InitBranch ==
  /\ \E shape \in HeadShapes, t \in InitTimes : head = HeadAt(shape, t) /\ clock = t
  /\ cache = InitCache
  /\ ret = NoneValue
  /\ obs = InitObs
  /\ prev = NoCall

Init == InitBranch /\ IdleConc /\ IdlePatch /\ IdleDiff /\ IdleTrack

\* A caller runs current_branch() from start to end.
CallCurrentBranch ==
  LET r == current_branch(head, cache) IN
  /\ cache' = r.cache
  /\ ret' = r.ret
  /\ obs' = [called |-> TRUE, head |-> head, stat |-> r.stat, inspected |-> r.inspected,
             slurped |-> r.slurped, raised |-> r.raised]
  /\ prev' = [called |-> obs.called, ret |-> ret, stat |-> obs.stat]
  /\ UNCHANGED <<head, clock>>

CurrentBranch ==
  /\ CallCurrentBranch
  /\ UNCHANGED <<concVars, patchVars, diffVars, trackVars>>

\* git (or the user) replaces HEAD; the file system stamps it with a new time.
RewriteHead ==
  /\ clock < MaxTime
  /\ \E shape \in HeadShapes : head' = HeadAt(shape, clock + 1)
  /\ clock' = clock + 1
  /\ UNCHANGED <<cache, ret, obs, prev>>
  /\ UNCHANGED <<concVars, patchVars, diffVars, trackVars>>

Next == CurrentBranch \/ RewriteHead

Spec == Init /\ [][Next]_vars

---------------------------------------------------------------------------
(* current_branch() called from several threads: one action per statement  *)
(* that touches the cache or the file system, since the interpreter may    *)
(* switch threads between any two of them.                                 *)

Callers == 1..NumCallers

\* The shapes HEAD takes while callers run concurrently.
ConcShapes ==
  {sh \in HeadShapes :
     \/ sh.kind = "file" /\ sh.content \in {RefPrefix \o b \o <<"\n">> : b \in BranchNames}
     \/ sh.kind = "link" /\ ~sh.dangling /\ sh.target = RefsHeadsPath \o <<"/", "m">>
     \/ sh.kind = "missing"}

\* No read of HEAD: what the class attributes hold before any call.
NoRead == <<0, 0>>

InitLoc ==
  [n |-> 0, st |-> NoStat, value |-> <<>>, vtime |-> NoStat, hit |-> FALSE,
   ret |-> NoneValue, raised |-> FALSE,
   seenSt |-> NoRead, seenVal |-> NoRead, seenTime |-> NoStat]

InitConc ==
  /\ \E shape \in ConcShapes, t \in InitTimes : head = HeadAt(shape, t) /\ clock = t
  /\ cache = InitCache
  /\ ret = NoneValue /\ obs = InitObs /\ prev = NoCall
  /\ pc = [t \in Callers |-> "idle"]
  /\ loc = [t \in Callers |-> InitLoc]
  /\ src = [st |-> NoRead, val |-> NoRead, time |-> InitStMtime]
  /\ IdlePatch /\ IdleDiff /\ IdleTrack

ConcFrame == UNCHANGED <<ret, obs, prev, patchVars, diffVars, trackVars>>

Goto(t, label) == pc' = [pc EXCEPT ![t] = label]

\* the caller returns r
Return(t, r) ==
  /\ loc' = [loc EXCEPT ![t].ret = r]
  /\ Goto(t, "done")

\* the caller leaves with an exception
Raise(t) ==
  /\ loc' = [loc EXCEPT ![t].raised = TRUE]
  /\ Goto(t, "done")

\* a caller enters current_branch()
Enter(t) ==
  /\ pc[t] = "idle" /\ loc[t].n < MaxCalls
  /\ loc' = [loc EXCEPT ![t] = [InitLoc EXCEPT !.n = loc[t].n + 1]]
  /\ Goto(t, "stat")
  /\ UNCHANGED <<head, clock, cache, src>> /\ ConcFrame

\* st = os.stat(head)
DoStat(t) ==
  /\ pc[t] = "stat"
  /\ loc' = [loc EXCEPT ![t].st = Stat(head)]
  /\ Goto(t, IF Stat(head) = NoStat THEN "islink" ELSE "compare")
  /\ UNCHANGED <<head, clock, cache, src>> /\ ConcFrame

\* if _current_branch.st_mtime == st.st_mtime:
Compare(t) ==
  /\ pc[t] = "compare"
  /\ IF CacheHit(cache, loc[t].st)
     THEN /\ loc' = [loc EXCEPT ![t].hit = TRUE, ![t].seenSt = src.st]
          /\ Goto(t, "cached")
     ELSE /\ loc' = loc
          /\ Goto(t, "islink")
  /\ UNCHANGED <<head, clock, cache, src>> /\ ConcFrame

\* return _current_branch.value
ReturnCached(t) ==
  /\ pc[t] = "cached"
  /\ loc' = [loc EXCEPT ![t].ret = cache.value, ![t].seenVal = src.val,
                        ![t].seenTime = src.time]
  /\ Goto(t, "done")
  /\ UNCHANGED <<head, clock, cache, src>> /\ ConcFrame

\* if os.path.islink(head): ... the whole legacy branch
CheckLink(t) ==
  /\ pc[t] = "islink"
  /\ IF IsLink(head)
     THEN LET refs_heads == RealPath(RefsHeadsPath, head)
              path == LinkPath(head)
              value == Drop(path, Len(refs_heads) + 1)
          IN IF StartsWith(path, refs_heads \o <<"/">>)
             THEN IF loc[t].st = NoStat
                  THEN /\ cache' = [cache EXCEPT !.value = value]
                       /\ src' = [src EXCEPT !.val = <<t, loc[t].n>>,
                                             !.time = head.mtime]
                       /\ Raise(t)
                  ELSE /\ cache' = [st_mtime |-> loc[t].st, value |-> value]
                       /\ src' = [st |-> <<t, loc[t].n>>, val |-> <<t, loc[t].n>>,
                                  time |-> head.mtime]
                       /\ Return(t, value)
             ELSE /\ Return(t, <<>>)
                  /\ UNCHANGED <<cache, src>>
     ELSE /\ loc' = loc
          /\ Goto(t, "isfile")
          /\ UNCHANGED <<cache, src>>
  /\ UNCHANGED <<head, clock>> /\ ConcFrame

\* if os.path.isfile(head):   else: return ''
CheckFile(t) ==
  /\ pc[t] = "isfile"
  /\ IF IsFile(head)
     THEN loc' = loc /\ Goto(t, "slurp")
     ELSE Return(t, <<>>)
  /\ UNCHANGED <<head, clock, cache, src>> /\ ConcFrame

\* value = utils.slurp(head).strip(), minus the prefix (IOError: HEAD is gone)
SlurpHead(t) ==
  /\ pc[t] = "slurp"
  /\ IF IsFile(head)
     THEN /\ loc' = [loc EXCEPT ![t].value = FileValue(Slurp(head)),
                                ![t].vtime = head.mtime]
          /\ Goto(t, "store_mtime")
     ELSE Raise(t)
  /\ UNCHANGED <<head, clock, cache, src>> /\ ConcFrame

\* _current_branch.st_mtime = st.st_mtime   (UnboundLocalError: the stat failed)
StoreMtime(t) ==
  /\ pc[t] = "store_mtime"
  /\ IF loc[t].st = NoStat
     THEN Raise(t) /\ UNCHANGED <<cache, src>>
     ELSE /\ cache' = [cache EXCEPT !.st_mtime = loc[t].st]
          /\ src' = [src EXCEPT !.st = <<t, loc[t].n>>]
          /\ loc' = loc
          /\ Goto(t, "store_value")
  /\ UNCHANGED <<head, clock>> /\ ConcFrame

\* _current_branch.value = value; return value
StoreValue(t) ==
  /\ pc[t] = "store_value"
  /\ cache' = [cache EXCEPT !.value = loc[t].value]
  /\ src' = [src EXCEPT !.val = <<t, loc[t].n>>, !.time = loc[t].vtime]
  /\ Return(t, loc[t].value)
  /\ UNCHANGED <<head, clock>> /\ ConcFrame

\* the caller has its answer and goes on
Leave(t) ==
  /\ pc[t] = "done"
  /\ loc' = loc
  /\ Goto(t, "idle")
  /\ UNCHANGED <<head, clock, cache, src>> /\ ConcFrame

\* HEAD is replaced while callers run
RewriteHeadConc ==
  /\ clock < MaxTime
  /\ \E shape \in ConcShapes : head' = HeadAt(shape, clock + 1)
  /\ clock' = clock + 1
  /\ UNCHANGED <<cache, pc, loc, src>> /\ ConcFrame

NextConc ==
  \/ RewriteHeadConc
  \/ \E t \in Callers :
       \/ Enter(t) \/ DoStat(t) \/ Compare(t) \/ ReturnCached(t) \/ CheckLink(t)
       \/ CheckFile(t) \/ SlurpHead(t) \/ StoreMtime(t) \/ StoreValue(t) \/ Leave(t)

SpecConc == InitConc /\ [][NextConc]_vars

\* C5: a caller that is served from the cache saw a timestamp and a value
\* stored by one and the same read of HEAD, and the value it returns was
\* read from HEAD when HEAD had the modification time the caller saw.
C5_PairReplacedAsUnit ==
  \A t \in Callers :
    (pc[t] = "done" /\ loc[t].hit)
      => (loc[t].seenSt = loc[t].seenVal /\ loc[t].seenTime = loc[t].st)

---------------------------------------------------------------------------
(* format_patchsets() and export_patchset() *)

RevNames == <<"r1", "r2", "r3", "r4", "r5", "r6", "r7", "r8">>

\* The full lists: every ordering of the first n revisions, n up to MaxRevs.
RevLists ==
  UNION {{q \in [1..n -> {RevNames[i] : i \in 1..n}] :
            \A i, j \in 1..n : i # j => q[i] # q[j]} : n \in 1..MaxRevs}

\* The elements of q at the positions in P, in order.
RECURSIVE Pick(_, _)
Pick(q, P) ==
  IF P = {} THEN <<>>
  ELSE LET i == CHOOSE i \in P : \A j \in P : i <= j
       IN <<q[i]>> \o Pick(q, P \ {i})

\* The selections: the non-empty subsequences of the full list.
Selections(q) == {Pick(q, P) : P \in (SUBSET DOMAIN q) \ {{}}}

\* Exit statuses of git format-patch.
StatusCodes == {0, 1, 128}

\* list.index(x), counted from 0; -1 stands for ValueError
IndexOf(q, x) ==
  IF \E i \in DOMAIN q : q[i] = x
  THEN (CHOOSE i \in DOMAIN q : q[i] = x /\ \A j \in 1..(i - 1) : q[j] # x) - 1
  ELSE -1

\* Faulty variant of Adjacent: any later revision extends the run.
Adjacent_AnyLater(master_idx, cur_master_idx) == master_idx > cur_master_idx

\* if master_idx == cur_master_idx + 1:
Adjacent(master_idx, cur_master_idx) == master_idx = cur_master_idx + 1

\* the loop "for idx, rev in enumerate(to_export[1:])" over what is left
RECURSIVE GroupLoop(_, _, _, _)
GroupLoop(rest, revs, cur_master_idx, patches_to_export) ==
  IF rest = <<>> THEN [patches |-> patches_to_export, raised |-> FALSE]
  ELSE LET rev == Head(rest)
           found == IndexOf(Drop(revs, cur_master_idx), rev)
           master_idx == found + cur_master_idx
           last == Len(patches_to_export)
       IN IF found = -1 THEN [patches |-> patches_to_export, raised |-> TRUE]
          ELSE IF Adjacent(master_idx, cur_master_idx)
          THEN GroupLoop(Tail(rest), revs, cur_master_idx + 1,
                 [patches_to_export EXCEPT ![last] = Append(@, rev)])
          ELSE GroupLoop(Tail(rest), revs, master_idx,
                 Append(patches_to_export, <<rev>>))

\* "Group the patches into continuous sets"
GroupPatches(to_export, revs) ==
  LET cur_rev == to_export[1]
      cur_master_idx == IndexOf(revs, cur_rev)
  IN IF cur_master_idx = -1 THEN [patches |-> <<>>, raised |-> TRUE]
     ELSE GroupLoop(Tail(to_export), revs, cur_master_idx, <<<<cur_rev>>>>)

\* export_patchset(patchset[0], patchset[-1], output='patches',
\*                 n=len(patchset) > 1, thread=True, patch_with_stat=True):
\* the arguments git format-patch is run with
ExportCall(patchset) ==
  [start |-> patchset[1], end |-> patchset[Len(patchset)],
   range |-> <<patchset[1], "^", ".", ".", patchset[Len(patchset)]>>,
   output |-> "patches", n |-> Len(patchset) > 1,
   thread |-> TRUE, patch_with_stat |-> TRUE]

\* The log git format-patch prints for one run: the patch files it wrote,
\* or its complaint.
GitLog(call, status) ==
  IF status = 0 THEN <<"patches", "/", call.start, "-", call.end>>
  ELSE <<"fatal:", " ", call.start>>

\* Faulty variant of Accumulate: every status is added.
Accumulate_Sum(status, newstatus) == status + newstatus

\* if status == 0: status += newstatus
Accumulate(status, newstatus) == IF status = 0 THEN status + newstatus ELSE status

\* the loop "for patchset in patches_to_export", git answering answers[i]
RECURSIVE ExportLoop(_, _, _, _, _, _)
ExportLoop(patches, answers, i, status, outlines, calls) ==
  IF i > Len(patches) THEN [status |-> status, outlines |-> outlines, calls |-> calls]
  ELSE LET call == ExportCall(patches[i])
           newstatus == answers[i]
           out == GitLog(call, newstatus)
       IN ExportLoop(patches, answers, i + 1, Accumulate(status, newstatus),
                     Append(outlines, out), Append(calls, call))

InitPatch ==
  /\ \E revs \in RevLists : \E to_export \in Selections(revs) :
        patchIn = [revs |-> revs, to_export |-> to_export]
  /\ patchOut = [done |-> FALSE]
  /\ head = <<>> /\ clock = 0 /\ cache = InitCache
  /\ ret = NoneValue /\ obs = InitObs /\ prev = NoCall
  /\ IdleConc /\ IdleDiff /\ IdleTrack

\* format_patchsets(to_export, revs), git answering each export with a status
FormatPatchsets ==
  /\ ~patchOut.done
  /\ LET g == GroupPatches(patchIn.to_export, patchIn.revs) IN
     IF g.raised
     THEN patchOut' = [done |-> TRUE, raised |-> TRUE, patches |-> g.patches,
                       answers |-> <<>>, calls |-> <<>>, outlines |-> <<>>,
                       status |-> 0, log |-> <<>>]
     ELSE \E answers \in [1..Len(g.patches) -> StatusCodes] :
            LET e == ExportLoop(g.patches, answers, 1, 0, <<>>, <<>>) IN
            patchOut' = [done |-> TRUE, raised |-> FALSE, patches |-> g.patches,
                         answers |-> answers, calls |-> e.calls,
                         outlines |-> e.outlines, status |-> e.status,
                         log |-> Join(e.outlines, "\n")]
  /\ UNCHANGED <<patchIn, branchVars, concVars, diffVars, trackVars>>

NextPatch == FormatPatchsets

SpecPatch == InitPatch /\ [][NextPatch]_vars

---------------------------------------------------------------------------
(* diff_helper() *)

\* core.decode(): bytes to text; a byte the primary encoding rejects is
\* replaced, text passes unchanged.
Decode(b) ==
  [i \in DOMAIN b |-> IF b[i] \in {"\\xff", "\\xef\\xbf\\xbd"} THEN "U+FFFD" ELSE b[i]]

\* core.encode(): text to bytes.
Encode(u) == [i \in DOMAIN u |-> IF u[i] = "U+FFFD" THEN "\\xef\\xbf\\xbd" ELSE u[i]]

\* del_tag = 'deleted file mode '
DelTag ==
  <<"d", "e", "l", "e", "t", "e", "d", " ", "f", "i", "l", "e", " ", "m", "o", "d", "e", " ">>

\* 'fatal:'
FatalPrefix == <<"f", "a", "t", "a", "l", ":">>

\* The lines git diff prints in the model: a header line, a 'deleted file
\* mode' line, a hunk marker, a line that only starts like one, a body
\* line, an empty line, git's complaint, and a line with an undecodable byte.
DiffLines ==
  { <<"d", "i", "f", "f", " ", "a">>,
    DelTag \o <<"1">>,
    <<"@", "@", " ", "1", " ", "@", "@">>,
    <<"@", "@", " ", "x">>,
    <<"-", "x">>,
    <<>>,
    FatalPrefix \o <<" ", "b", "a", "d">>,
    <<"\\xff">> }

\* What git diff prints: up to MaxLines lines joined by newlines.
DiffOutputs ==
  {Join(ls, "\n") : ls \in UNION {[1..n -> DiffLines] : n \in 1..MaxLines}}

NoFile == [kind |-> "none", names |-> <<>>]
OneFile(f) == [kind |-> "str", names |-> <<f>>]
FileList(fs) == [kind |-> "list", names |-> fs]

\* The ways diff_helper is called: commit_diff's call on a commit, a pair of
\* refs on a path, a list of refs (with a branch that is then ignored) on a
\* path, and a branch on several paths.  None and '' are both <<>>.
DiffArgs ==
  { [commit |-> <<"c">>, branch |-> <<>>, ref |-> <<>>, endref |-> <<>>,
     filename |-> NoFile, reverse |-> FALSE],
    [commit |-> <<>>, branch |-> <<>>, ref |-> <<"a">>, endref |-> <<"b">>,
     filename |-> OneFile(<<"f">>), reverse |-> FALSE],
    [commit |-> <<>>, branch |-> <<"m">>, ref |-> <<" ", "a", " ", " ", "b">>,
     endref |-> <<>>, filename |-> OneFile(<<"f">>), reverse |-> TRUE],
    [commit |-> <<>>, branch |-> <<"m">>, ref |-> <<>>, endref |-> <<>>,
     filename |-> FileList(<< <<"f">>, <<"g">> >>), reverse |-> FALSE] }

\* s.split(): the words between runs of whitespace
RECURSIVE WordsAcc(_, _)
WordsAcc(s, cur) ==
  IF s = <<>> THEN (IF cur = <<>> THEN <<>> ELSE <<cur>>)
  ELSE IF Head(s) \in Whitespace
       THEN (IF cur = <<>> THEN <<>> ELSE <<cur>>) \o WordsAcc(Tail(s), <<>>)
       ELSE WordsAcc(Tail(s), Append(cur, Head(s)))

Words(s) == WordsAcc(s, <<>>)

\* the argv diff_helper hands to git diff
DiffArgv(a) ==
  LET ref == IF a.commit # <<>> THEN a.commit \o <<"^">> ELSE a.ref
      endref == IF a.commit # <<>> THEN a.commit ELSE a.endref
      revs == IF ref # <<>> /\ endref # <<>> THEN <<ref \o <<".", ".">> \o endref>>
              ELSE IF ref # <<>> THEN Words(Strip(ref))
              ELSE IF a.branch # <<>> THEN <<a.branch>>
              ELSE <<>>
      paths == IF a.filename.kind = "none" THEN <<>>
               ELSE << <<"-", "-">> >> \o a.filename.names
  IN revs \o paths

\* Faulty variant of IsFatal: the check is left out.
IsFatal_Never(diffoutput) == FALSE

\* if diffoutput.startswith('fatal:'):
IsFatal(diffoutput) == StartsWith(diffoutput, FatalPrefix)

\* Faulty variant of IsHunkStart: the second '@@' is not asked for.
IsHunkStart_PrefixOnly(line) == Take(line, 2) = <<"@", "@">>

\* '@@' == line[:2] and '@@' in line[2:]
IsHunkStart(line) ==
  Take(line, 2) = <<"@", "@">> /\ Contains(Drop(line, 2), <<"@", "@">>)

\* the loop "for line in map(core.decode, diff)": what is left of the lines,
\* the start flag, the headers and the bytes written to output
RECURSIVE DiffLoop(_, _, _, _, _, _, _)
DiffLoop(lines, start, headers, output, deleted, with_diff_header, suppress_header) ==
  IF lines = <<>> THEN [headers |-> headers, output |-> output]
  ELSE LET line == Head(lines)
           start2 == start \/ IsHunkStart(line)
           written == Encode(line) \o <<"\n">>
       IN IF start2 \/ (deleted /\ Contains(line, DelTag))
          THEN DiffLoop(Tail(lines), start2, headers, output \o written,
                        deleted, with_diff_header, suppress_header)
          ELSE IF with_diff_header
          THEN DiffLoop(Tail(lines), start2, Append(headers, Encode(line)), output,
                        deleted, with_diff_header, suppress_header)
          ELSE IF ~suppress_header
          THEN DiffLoop(Tail(lines), start2, headers, output \o written,
                        deleted, with_diff_header, suppress_header)
          ELSE DiffLoop(Tail(lines), start2, headers, output,
                        deleted, with_diff_header, suppress_header)

\* What diff_helper returns: a string (pair = FALSE, in body) or the pair
\* (headers, body).
DiffResult(pair, headers, body) == [pair |-> pair, headers |-> headers, body |-> body]

\* diff_helper(...) when the path exists or not and git diff prints diffoutput
diff_helper(a, cached, with_diff_header, suppress_header, exists, diffoutput) ==
  LET deleted == cached /\ ~exists IN
  IF IsFatal(diffoutput) THEN DiffResult(with_diff_header, <<>>, <<>>)
  ELSE LET diff == Split(diffoutput, "\n")
           lines == [i \in DOMAIN diff |-> Decode(diff[i])]
           r == DiffLoop(lines, FALSE, <<>>, <<>>, deleted, with_diff_header,
                         suppress_header)
           result == Decode(r.output)
       IN IF with_diff_header THEN DiffResult(TRUE, Join(r.headers, "\n"), result)
          ELSE DiffResult(FALSE, <<>>, result)

\* os.path.exists() is asked about filename only when cached is set, and it
\* needs one path then: cached calls name a single file.
InitDiff ==
  /\ \E a \in DiffArgs, cached, wdh, sh, exists \in BOOLEAN, o \in DiffOutputs :
        /\ cached => a.filename.kind = "str"
        /\ ~cached => exists
        /\ diffIn = [args |-> a, cached |-> cached, with_diff_header |-> wdh,
                     suppress_header |-> sh, exists |-> exists, diffoutput |-> o]
  /\ diffOut = [done |-> FALSE]
  /\ head = <<>> /\ clock = 0 /\ cache = InitCache
  /\ ret = NoneValue /\ obs = InitObs /\ prev = NoCall
  /\ IdleConc /\ IdlePatch /\ IdleTrack

\* One call of diff_helper.
DiffHelper ==
  /\ ~diffOut.done
  /\ diffOut' = [done |-> TRUE, argv |-> DiffArgv(diffIn.args),
                 result |-> diff_helper(diffIn.args, diffIn.cached,
                                        diffIn.with_diff_header, diffIn.suppress_header,
                                        diffIn.exists, diffIn.diffoutput)]
  /\ UNCHANGED <<diffIn, branchVars, concVars, patchVars, trackVars>>

NextDiff == DiffHelper

SpecDiff == InitDiff /\ [][NextDiff]_vars

---------------------------------------------------------------------------
(* tracked_branch() *)

\* refs_heads = 'refs/heads/'
RefsHeads == <<"r", "e", "f", "s", "/", "h", "e", "a", "d", "s", "/">>

\* '%s' % v: None prints as 'None'
Str(v) == IF v = NoneValue THEN <<"N", "o", "n", "e">> ELSE v

\* 'local_branch_%s_remote' % branch
RemoteKey(branch) ==
  <<"l", "o", "c", "a", "l", "_", "b", "r", "a", "n", "c", "h", "_">>
    \o Str(branch) \o <<"_", "r", "e", "m", "o", "t", "e">>

\* 'local_branch_%s_merge' % branch
MergeKey(branch) ==
  <<"l", "o", "c", "a", "l", "_", "b", "r", "a", "n", "c", "h", "_">>
    \o Str(branch) \o <<"_", "m", "e", "r", "g", "e">>

\* model.has_param(key): the parameters are a set of <<key, value>> pairs
HasParam(params, key) == \E kv \in params : kv[1] = key

\* model.param(key)
Param(params, key) == (CHOOSE kv \in params : kv[1] = key)[2]

\* A key that is not set.
Absent == <<"absent">>

\* What branch.<b>.remote can be: not set, empty, 'o'.
RemoteValues == {Absent, <<>>, <<"o">>}

\* What branch.<b>.merge can be: not set, refs/heads/m, refs/heads/f/x,
\* refs/heads/ alone, a tag, a bare name.
MergeValues ==
  {Absent, RefsHeads \o <<"m">>, RefsHeads \o <<"f", "/", "x">>, RefsHeads,
   <<"r", "e", "f", "s", "/", "t", "a", "g", "s", "/", "v">>, <<"m">>}

\* The parameters of the model for the branches it knows.
ParamSets ==
  {{<<RemoteKey(b), rem[b]>> : b \in {x \in BranchNames : rem[x] # Absent}}
     \cup {<<MergeKey(b), mer[b]>> : b \in {x \in BranchNames : mer[x] # Absent}} :
   rem \in [BranchNames -> RemoteValues], mer \in [BranchNames -> MergeValues]}

\* Faulty variant of TrackedName: the prefix stays in the result.
TrackedName_KeepPrefix(remote, ref) ==
  IF StartsWith(ref, RefsHeads) THEN remote \o <<"/">> \o ref ELSE <<>>

\* if ref.startswith(refs_heads): return remote + '/' + ref[len(refs_heads):]
\* return ''
TrackedName(remote, ref) ==
  IF StartsWith(ref, RefsHeads) THEN remote \o <<"/">> \o Drop(ref, Len(RefsHeads))
  ELSE <<>>

\* tracked_branch(branch), branch being a name already (not None)
tracked_branch(branch, params) ==
  IF ~HasParam(params, RemoteKey(branch)) THEN <<>>
  ELSE LET remote == Param(params, RemoteKey(branch)) IN
       IF remote = <<>> THEN <<>>
       ELSE IF ~HasParam(params, MergeKey(branch)) THEN <<>>
       ELSE TrackedName(remote, Param(params, MergeKey(branch)))

\* The HEADs tracked_branch(None) finds.
TrackShapes ==
  {sh \in HeadShapes :
     \/ sh.kind = "file" /\ sh.content \in
          {RefPrefix \o <<"m", "\n">>, RefPrefix \o <<"f", "/", "x">>, CommitId \o <<"\n">>}
     \/ sh.kind = "missing"}

\* The branch argument: None, a branch the model knows, one it does not.
TrackArgs == {NoneValue, <<"z">>} \cup BranchNames

InitTrack ==
  /\ \E b \in TrackArgs, ps \in ParamSets : trackIn = [branch |-> b, params |-> ps]
  /\ trackOut = [done |-> FALSE]
  /\ \E shape \in TrackShapes : head = HeadAt(shape, 1)
  /\ clock = 1 /\ cache = InitCache
  /\ ret = NoneValue /\ obs = InitObs /\ prev = NoCall
  /\ IdleConc /\ IdlePatch /\ IdleDiff

\* tracked_branch(branch) with an explicit branch
TrackedBranchOf ==
  /\ ~trackOut.done /\ trackIn.branch # NoneValue
  /\ trackOut' = [done |-> TRUE, branch |-> trackIn.branch,
                  result |-> tracked_branch(trackIn.branch, trackIn.params)]
  /\ UNCHANGED <<trackIn, branchVars, concVars, patchVars, diffVars>>

\* tracked_branch(): branch = current_branch()
TrackedBranchOfCurrent ==
  /\ ~trackOut.done /\ trackIn.branch = NoneValue
  /\ CallCurrentBranch
  /\ trackOut' = [done |-> TRUE, branch |-> ret',
                  result |-> tracked_branch(ret', trackIn.params)]
  /\ UNCHANGED <<trackIn, concVars, patchVars, diffVars>>

NextTrack == TrackedBranchOf \/ TrackedBranchOfCurrent

SpecTrack == InitTrack /\ [][NextTrack]_vars

---------------------------------------------------------------------------
(* Claims about current_branch(), checked under Spec. *)

AllWhitespace(s) == \A i \in DOMAIN s : s[i] \in Whitespace

\* content is core with nothing but whitespace before and after it
Surrounded(content, core) ==
  \E i \in 0..(Len(content) - Len(core)) :
    /\ SubSeq(content, i + 1, i + Len(core)) = core
    /\ AllWhitespace(SubSeq(content, 1, i))
    /\ AllWhitespace(SubSeq(content, i + Len(core) + 1, Len(content)))

\* v is content without its surrounding whitespace
IsStripped(content, v) ==
  /\ Surrounded(content, v)
  /\ v # <<>> => (v[1] \notin Whitespace /\ v[Len(v)] \notin Whitespace)

\* HEAD h is a symbolic link to refs/heads/<b>
LinkInto(h, b) == h.kind = "link" /\ h.target = RefsHeadsPath \o <<"/">> \o b

\* HEAD h is a plain file holding 'ref: refs/heads/<b>' within whitespace
RefFile(h, b) == h.kind = "file" /\ Surrounded(h.content, RefPrefix \o b)

\* HEAD h names a branch under refs/heads/, as a link or as a 'ref:' file
NamesBranch(h) ==
  \/ h.kind = "link" /\ StartsWith(h.target, RefsHeadsPath \o <<"/">>)
  \/ h.kind = "file" /\ \E v \in {Drop(h.content, i) : i \in 0..Len(h.content)} :
        /\ StartsWith(v, RefPrefix)
        /\ AllWhitespace(Take(h.content, Len(h.content) - Len(v)))

\* The call read HEAD, or was served a value that an earlier read cached.
ReadOrServed == obs.inspected \/ ret # NoneValue

\* C1: of two successive calls that saw the same modification time of HEAD,
\* the second neither inspects nor reads HEAD again and returns what the
\* first returned.
C1_NoRereadSameMtime ==
  (obs.called /\ prev.called /\ obs.stat # NoStat /\ prev.stat = obs.stat)
    => (~obs.inspected /\ ~obs.slurped /\ ret = prev.ret)

\* C2: whenever the HEAD a call saw is a plain file holding
\* 'ref: refs/heads/X' within whitespace, the call returns exactly X, from
\* the initial cache on and after any rewrites that changed the time.
C2_RefFileReturnsBranch ==
  \A b \in BranchNames : (obs.called /\ RefFile(obs.head, b)) => ret = b

\* C2 without the initial cache: a call that read HEAD, or was served a
\* value an earlier read cached, returns exactly X for such a file.
C2_HoldsOnceRead ==
  \A b \in BranchNames :
    (obs.called /\ RefFile(obs.head, b) /\ ReadOrServed) => ret = b

\* C3: whenever the HEAD a call saw is a symbolic link to refs/heads/X and
\* the call missed the cache, the call returns X.
C3_LinkReturnsBranch ==
  \A b \in BranchNames :
    (obs.called /\ obs.inspected /\ LinkInto(obs.head, b)) => ret = b

\* C4 as claimed: whenever the HEAD a call saw names no branch under
\* refs/heads/ (detached, another ref, missing, unreadable), the call
\* returns the empty string, read or served from the cache.
C4_EmptyWhenNoBranch ==
  (obs.called /\ ~NamesBranch(obs.head) /\ ReadOrServed) => ret = <<>>

\* C4 as amended: such a call returns the empty string unless HEAD is a
\* plain file, and then the file's content without surrounding whitespace
\* (the commit id of a detached HEAD, 'ref: refs/remotes/...'), whether it
\* read HEAD or was served a value cached by an earlier read.
C4_StrippedContentWhenNoBranch ==
  (obs.called /\ ~NamesBranch(obs.head) /\ ReadOrServed)
    => IF obs.head.kind = "file" THEN IsStripped(obs.head.content, ret)
       ELSE ret = <<>>

\* A detached HEAD served from the cache after an earlier call read it.
C4_Witness ==
  /\ obs.called /\ prev.called /\ ~obs.inspected
  /\ obs.head.kind = "file" /\ obs.head.content = <<" ">> \o CommitId \o <<"\n">>
  /\ ret = CommitId

---------------------------------------------------------------------------
(* Claims about format_patchsets(), checked under SpecPatch. *)

RECURSIVE Flatten(_)
Flatten(ss) == IF ss = <<>> THEN <<>> ELSE Head(ss) \o Flatten(Tail(ss))

\* Position of revision x in the full list.
Pos(x) == CHOOSE i \in DOMAIN patchIn.revs : patchIn.revs[i] = x

RECURSIVE SumLen(_, _)
SumLen(ss, k) == IF k = 0 THEN 0 ELSE Len(ss[k]) + SumLen(ss, k - 1)

\* The run that holds the i-th selected revision.
RunOf(runs, i) ==
  CHOOSE k \in DOMAIN runs : SumLen(runs, k - 1) < i /\ i <= SumLen(runs, k)

\* C6: the runs are non-empty and concatenate to the selection; two
\* consecutive selected revisions share a run exactly when their positions
\* in the full list differ by one; one export per run, from its first
\* revision to its last.
C6_MaximalContiguousRuns ==
  patchOut.done =>
    LET sel == patchIn.to_export
        runs == patchOut.patches
        calls == patchOut.calls
    IN /\ ~patchOut.raised
       /\ \A k \in DOMAIN runs : runs[k] # <<>>
       /\ Flatten(runs) = sel
       /\ \A i \in 1..(Len(sel) - 1) :
            (RunOf(runs, i) = RunOf(runs, i + 1)) <=> (Pos(sel[i + 1]) = Pos(sel[i]) + 1)
       /\ Len(calls) = Len(runs)
       /\ \A k \in DOMAIN runs :
            calls[k].start = runs[k][1] /\ calls[k].end = runs[k][Len(runs[k])]

\* The example of the specification: r1, r2, r4 out of r1..r5.
C6_Witness ==
  /\ patchOut.done
  /\ patchIn.revs = <<"r1", "r2", "r3", "r4", "r5">>
  /\ patchIn.to_export = <<"r1", "r2", "r4">>
  /\ patchOut.patches = << <<"r1", "r2">>, <<"r4">> >>
  /\ Len(patchOut.calls) = 2

\* The number of maximal contiguous runs of the selection.
RunCount ==
  1 + Cardinality({i \in 1..(Len(patchIn.to_export) - 1) :
                     Pos(patchIn.to_export[i + 1]) # Pos(patchIn.to_export[i]) + 1})

\* C7: the status returned is the first nonzero answer in run order, zero
\* when there is none; every run is exported whatever the answers before
\* it; the log holds one entry per run, in run order.
C7_FirstNonzeroStatus ==
  (patchOut.done /\ ~patchOut.raised) =>
    LET answers == patchOut.answers
        calls == patchOut.calls
    IN /\ \/ patchOut.status = 0 /\ \A i \in DOMAIN answers : answers[i] = 0
          \/ \E i \in DOMAIN answers :
               /\ answers[i] # 0 /\ patchOut.status = answers[i]
               /\ \A j \in 1..(i - 1) : answers[j] = 0
       /\ Len(calls) = RunCount
       /\ Split(patchOut.log, "\n") = [k \in 1..RunCount |-> GitLog(calls[k], answers[k])]

\* Three runs of which the second and the third fail, with different statuses.
C7_Witness ==
  /\ patchOut.done /\ ~patchOut.raised
  /\ patchOut.answers = <<0, 128, 1>>
  /\ patchOut.status = 128
  /\ Len(patchOut.calls) = 3

---------------------------------------------------------------------------
(* Claims about diff_helper(), checked under SpecDiff. *)

\* C8: when what git diff printed begins with 'fatal:', the result is the
\* empty string, or the pair of two empty strings when the headers are
\* asked for separately, whatever the other arguments.
C8_FatalGivesEmpty ==
  (diffOut.done /\ Take(diffIn.diffoutput, 6) = FatalPrefix)
    => /\ diffOut.result.pair = diffIn.with_diff_header
       /\ diffOut.result.headers = <<>>
       /\ diffOut.result.body = <<>>

\* A fatal message followed by more lines, headers asked for separately and
\* not suppressed.
C8_Witness ==
  /\ diffOut.done
  /\ diffIn.diffoutput = FatalPrefix \o <<" ", "b", "a", "d", "\n", "-", "x">>
  /\ diffIn.with_diff_header /\ ~diffIn.suppress_header
  /\ diffOut.result = DiffResult(TRUE, <<>>, <<>>)

\* The lines git diff printed, as text.
TextLines ==
  LET raw == Split(diffIn.diffoutput, "\n") IN [i \in DOMAIN raw |-> Decode(raw[i])]

\* A line that starts with '@@' and holds a second '@@' after it.
HunkMarker(l) ==
  /\ Len(l) >= 4 /\ l[1] = "@" /\ l[2] = "@"
  /\ \E j \in 3..(Len(l) - 1) : l[j] = "@" /\ l[j + 1] = "@"

\* Line i is body: at or after the first hunk marker, or a 'deleted file
\* mode ' line of a cached diff of a path that is gone.
BodyLine(i) ==
  \/ \E k \in 1..i : HunkMarker(TextLines[k])
  \/ /\ diffIn.cached /\ ~diffIn.exists
     /\ \E j \in 1..(Len(TextLines[i]) - Len(DelTag) + 1) :
          SubSeq(TextLines[i], j, j + Len(DelTag) - 1) = DelTag

\* The lines at the positions in P, in order, each ended by a newline.
RECURSIVE LinesAt(_)
LinesAt(P) ==
  IF P = {} THEN <<>>
  ELSE LET i == CHOOSE i \in P : \A j \in P : i <= j
       IN TextLines[i] \o <<"\n">> \o LinesAt(P \ {i})

\* C9: for output that is not fatal, the body holds the body lines in
\* order; the header lines are returned apart when with_diff_header is
\* set, else dropped when suppress_header is set, else left in the body at
\* their places.
C9_HeaderBodySplit ==
  (diffOut.done /\ Take(diffIn.diffoutput, 6) # FatalPrefix) =>
    LET all == DOMAIN TextLines
        bodyIdx == {i \in all : BodyLine(i)}
        hdrIdx == all \ bodyIdx
        r == diffOut.result
    IN IF diffIn.with_diff_header
       THEN /\ r.pair
            /\ r.body = LinesAt(bodyIdx)
            /\ Decode(r.headers) \o (IF hdrIdx = {} THEN <<>> ELSE <<"\n">>)
                 = LinesAt(hdrIdx)
       ELSE /\ ~r.pair
            /\ r.body = IF diffIn.suppress_header THEN LinesAt(bodyIdx) ELSE LinesAt(all)

\* A cached diff of a deleted path: the 'deleted file mode' line goes to
\* the body, the line that only starts like a marker to the headers, the
\* lines from the marker on to the body.
C9_Witness ==
  /\ diffOut.done /\ diffIn.cached /\ ~diffIn.exists /\ diffIn.with_diff_header
  /\ diffIn.diffoutput =
       Join(<< DelTag \o <<"1">>, <<"@", "@", " ", "x">>,
               <<"@", "@", " ", "1", " ", "@", "@">> >>, "\n")
  /\ diffOut.result.headers = <<"@", "@", " ", "x">>
  /\ diffOut.result.body =
       DelTag \o <<"1", "\n">> \o <<"@", "@", " ", "1", " ", "@", "@", "\n">>

---------------------------------------------------------------------------
(* Claims about tracked_branch(), checked under SpecTrack. *)

\* The value the parameters give to key, Absent when they give none.
Setting(key) ==
  IF \E kv \in trackIn.params : kv[1] = key
  THEN (CHOOSE kv \in trackIn.params : kv[1] = key)[2]
  ELSE Absent

\* C10: the result is empty when the remote or the merge key of the branch
\* is not set, when the remote is empty, or when the merge value does not
\* start with 'refs/heads/'; otherwise it is <remote>/<suffix>, the merge
\* value being 'refs/heads/<suffix>'.
C10_TrackedBranch ==
  trackOut.done =>
    LET remote == Setting(RemoteKey(trackOut.branch))
        merge == Setting(MergeKey(trackOut.branch))
        tracks == /\ remote \notin {Absent, <<>>} /\ merge # Absent
                  /\ Len(merge) >= Len(RefsHeads)
                  /\ \A i \in 1..Len(RefsHeads) : merge[i] = RefsHeads[i]
    IN IF tracks
       THEN \E suffix \in {SubSeq(merge, i, Len(merge)) : i \in 1..(Len(merge) + 1)} :
              merge = RefsHeads \o suffix /\ trackOut.result = remote \o <<"/">> \o suffix
       ELSE trackOut.result = <<>>

\* The current branch f/x tracks o/m.
C10_Witness ==
  /\ trackOut.done /\ trackIn.branch = NoneValue
  /\ trackOut.branch = <<"f", "/", "x">>
  /\ trackOut.result = <<"o", "/", "m">>

===========================================================================
